---------------------------- MODULE Spec2Model ----------------------------
(***************************************************************************)
(* Model of app.py (Resume Parser): the experience formatter and           *)
(* aggregator, the response cleaning of parse_resume_with_gemini, and the  *)
(* Streamlit script main() with its session state.                         *)
(*                                                                         *)
(* Text is a sequence of one-character strings.  A Python value is a       *)
(* record [t, v]: t is the Python type, v its content.                     *)
(***************************************************************************)
EXTENDS Integers, Sequences, FiniteSets, TLC

VARIABLES
    \* format_experience and calculate_experience applied to one experience
    \* value, in the order of main's lines 182-183
    exp_entries,    \* the argument
    now,            \* datetime.now(): [ord |-> day number, dom |-> day of month]
    pc,             \* "start", "formatted", "done", or "format_raised", "calculate_raised"
    formatted,      \* format_experience's list "formatted"
    experience,     \* format_experience's return value
    trace,          \* what calculate_experience's try block did, per entry
    total_days,     \* calculate_experience's total_days
    years           \* its return value, in hundredths of a year

expVars == <<exp_entries, now, pc, formatted, experience, trace, total_days, years>>

VARIABLES
    \* parse_resume_with_gemini applied to one model response, and its
    \* cleaning and repair applied to the payload of that response alone
    response,       \* [prefix, fence, payload, suffix, api_error]
    san_done,       \* which of "response", "payload" have been sanitized
    cleaned_output, \* cleaned_output at line 121, for the response
    parsed,         \* the function's return value, for the response
    bare_cleaned,   \* the same two, for the payload alone
    bare_parsed

sanVars == <<response, san_done, cleaned_output, parsed, bare_cleaned, bare_parsed>>

VARIABLES
    \* main's lines 179-185 applied twice to one sanitized record
    clock,          \* datetime.now() of the next run
    sanitized,      \* the record as the sanitizer returned it
    runs,           \* how many times the steps have run
    first_record,   \* the record the first run produced
    second_record   \* the record the second run produced

pipeVars == <<clock, sanitized, runs, first_record, second_record>>

VARIABLES
    \* the script main() and st.session_state
    session_state,  \* a function from the keys that are set to their values
    parse_offered,  \* the last run rendered the Parse button (line 160)
    reset_offered,  \* the last run rendered the Reset button (line 245)
    reset_pending,  \* reset_session has run and the script has not rerun yet
    changed,        \* the last run took the branch of line 154
    run_end,        \* how the last run's parse ended: "none" (no parse),
                    \* "success" (line 213), "error" (line 218), "aborted"
    files_seen,     \* the files the loop of line 165 visited
    file_log,       \* per visited file: extraction and sanitizing, and the count
    all_data,       \* all_data at line 194
    success_count, fail_count,
    parsed_from     \* the file list the stored parsed_data was computed from

mainVars ==
    <<session_state, parse_offered, reset_offered, reset_pending, changed, run_end,
      files_seen, file_log, all_data, success_count, fail_count, parsed_from>>

vars == <<expVars, sanVars, pipeVars, mainVars>>

(***************************************************************************)
(* Bounds of the model.                                                    *)
(***************************************************************************)
MaxEntries == 2
MaxFiles == 2

(***************************************************************************)
(* Characters that have no printable one-letter name.                      *)
(***************************************************************************)
NL == "\n"
EnDash == "endash"
Backtick == "backtick"
Hyphen == "-"
Space == " "

(***************************************************************************)
(* Python values.                                                          *)
(***************************************************************************)
Str(s) == [t |-> "str", v |-> s]
PyNone == [t |-> "none", v |-> <<>>]
Num(n) == [t |-> "num", v |-> n]
Float(h) == [t |-> "float", v |-> h]          \* h hundredths
NaN == [t |-> "nan", v |-> <<>>]               \* pandas' missing value
Dict(f) == [t |-> "dict", v |-> f]
List(s) == [t |-> "list", v |-> s]

\* dict.get(key, default)
Get(d, key, default) == IF key \in DOMAIN d.v THEN d.v[key] ELSE default

\* d[key] = value
Put(d, key, value) ==
    Dict([k \in DOMAIN d.v \cup {key} |-> IF k = key THEN value ELSE d.v[k]])

\* str(x) as an f-string renders it
PyStr(x) ==
    CASE x.t = "str" -> x.v
      [] x.t = "none" -> <<"N", "o", "n", "e">>
      [] x.t = "num" -> <<"4", "2">>
      [] OTHER -> <<"?">>

\* bool(x): None, "", {}, [] and 0 are falsy
Truthy(x) ==
    CASE x.t = "none" -> FALSE
      [] x.t = "str" -> x.v # <<>>
      [] x.t = "list" -> x.v # <<>>
      [] x.t = "dict" -> DOMAIN x.v # {}
      [] x.t = "num" -> x.v # 0
      [] OTHER -> TRUE

(***************************************************************************)
(* The values of the variables a specification does not use.               *)
(***************************************************************************)
ExpIdle ==
    /\ exp_entries = PyNone
    /\ now = [ord |-> 1461, dom |-> 1]
    /\ pc = "idle"
    /\ formatted = <<>>
    /\ experience = <<>>
    /\ trace = <<>>
    /\ total_days = 0
    /\ years = 0

SanIdle ==
    /\ response = [prefix |-> <<>>, fence |-> <<>>, payload |-> <<>>, suffix |-> <<>>,
                   api_error |-> FALSE]
    /\ san_done = {}
    /\ cleaned_output = <<>>
    /\ parsed = PyNone
    /\ bare_cleaned = <<>>
    /\ bare_parsed = PyNone

PipeIdle ==
    /\ clock = [ord |-> 1461, dom |-> 1]
    /\ sanitized = PyNone
    /\ runs = 0
    /\ first_record = PyNone
    /\ second_record = PyNone

MainIdle ==
    /\ session_state = <<>>
    /\ parse_offered = FALSE
    /\ reset_offered = FALSE
    /\ reset_pending = FALSE
    /\ changed = FALSE
    /\ run_end = "none"
    /\ files_seen = <<>>
    /\ file_log = <<>>
    /\ all_data = <<>>
    /\ success_count = 0
    /\ fail_count = 0
    /\ parsed_from = <<>>

(***************************************************************************)
(* str methods.                                                            *)
(***************************************************************************)
IsSpace(c) == c \in {Space, NL, "\t"}

\* c in s, for a one-character c
Contains(s, c) == \E i \in 1..Len(s) : s[i] = c

\* s[i:] starts with p
StartsAt(s, p, i) ==
    /\ i >= 1
    /\ i + Len(p) - 1 <= Len(s)
    /\ \A k \in 1..Len(p) : s[i + k - 1] = p[k]

RECURSIVE LStrip(_)
LStrip(s) == IF s # <<>> /\ IsSpace(Head(s)) THEN LStrip(Tail(s)) ELSE s

RECURSIVE RStrip(_)
RStrip(s) ==
    IF s # <<>> /\ IsSpace(s[Len(s)]) THEN RStrip(SubSeq(s, 1, Len(s) - 1)) ELSE s

\* str.strip()
Strip(s) == RStrip(LStrip(s))

\* The upper-case letters of the model's texts; every other character is
\* its own lower case.
LowerChar(c) ==
    CASE c = "P" -> "p"
      [] c = "R" -> "r"
      [] c = "E" -> "e"
      [] c = "S" -> "s"
      [] c = "N" -> "n"
      [] c = "T" -> "t"
      [] c = "D" -> "d"
      [] OTHER -> c

\* str.lower()
Lower(s) == [i \in 1..Len(s) |-> LowerChar(s[i])]

\* str.split(sep) for a one-character sep: every occurrence splits
RECURSIVE SplitFrom(_, _, _)
SplitFrom(s, sep, cur) ==
    IF s = <<>> THEN <<cur>>
    ELSE IF Head(s) = sep THEN <<cur>> \o SplitFrom(Tail(s), sep, <<>>)
    ELSE SplitFrom(Tail(s), sep, Append(cur, Head(s)))

Split(s, sep) == SplitFrom(s, sep, <<>>)

\* sep.join(items)
RECURSIVE Join(_, _)
Join(items, sep) ==
    IF items = <<>> THEN <<>>
    ELSE IF Len(items) = 1 THEN items[1]
    ELSE items[1] \o sep \o Join(Tail(items), sep)

\* str.replace(pat, ""): left to right, occurrences do not overlap
RECURSIVE RemoveAll(_, _)
RemoveAll(s, pat) ==
    IF s = <<>> THEN <<>>
    ELSE IF StartsAt(s, pat, 1) THEN RemoveAll(SubSeq(s, Len(pat) + 1, Len(s)), pat)
    ELSE <<Head(s)>> \o RemoveAll(Tail(s), pat)

\* The least index >= i at which s holds c; 0 when there is none.
RECURSIVE Find(_, _, _)
Find(s, c, i) ==
    IF i > Len(s) THEN 0 ELSE IF s[i] = c THEN i ELSE Find(s, c, i + 1)

\* the characters of a str, as iterating it yields them
Chars(s) == [i \in 1..Len(s) |-> Str(<<s[i]>>)]


(***************************************************************************)
(* parse_resume_with_gemini, lines 116-121: the cleaning of the response   *)
(* text and json_repair.loads.                                             *)
(***************************************************************************)
\* The greatest index at which s holds c; 0 when there is none.
FindLast(s, c) ==
    LET ks == {k \in 1..Len(s) : s[k] = c}
    IN  IF ks = {} THEN 0 ELSE CHOOSE k \in ks : \A m \in ks : m <= k

\* the text kept whole: a substitution that matches nothing
CutBeforeFirstBrace_keep(s) == s

\* line 117: re.sub(r'^[^{]*{', '{', raw_output, 1, re.DOTALL)
CutBeforeFirstBrace(s) ==
    LET k == Find(s, "{", 1) IN IF k = 0 THEN s ELSE SubSeq(s, k, Len(s))

\* line 118: re.sub(r'}[^}]*$', '}', cleaned_output, 1, re.DOTALL)
CutAfterLastBrace(s) ==
    LET k == FindLast(s, "}") IN IF k = 0 THEN s ELSE SubSeq(s, 1, k)

FenceJson == <<Backtick, Backtick, Backtick, "j", "s", "o", "n">>
Fence == <<Backtick, Backtick, Backtick>>

\* line 119: .strip(), then the two replace() calls that delete the fence
\* with the language tag and the bare fence
StripFences(s) == RemoveAll(RemoveAll(Strip(s), FenceJson), Fence)

\* lines 117-119
Clean(s) == StripFences(CutAfterLastBrace(CutBeforeFirstBrace(s)))

\* json_repair.loads(text).  The text is parsed from its first "{" or "[",
\* whichever comes first; a text with neither holds no JSON and gives "".
\* An object is the dict of its members, here the dict that holds the text of
\* the members; an array of the model's texts holds the number 1.
JsonRepairLoads(text) ==
    LET o == Find(text, "{", 1)
        a == Find(text, "[", 1)
    IN  IF o = 0 /\ a = 0 THEN Str(<<>>)
        ELSE IF o # 0 /\ (a = 0 \/ o < a)
        THEN LET c == FindLast(text, "}")
                 inner == Strip(SubSeq(text, o + 1, IF c > o THEN c - 1 ELSE Len(text)))
             IN  IF inner = <<>> THEN Dict(<<>>) ELSE Dict([members |-> Str(inner)])
        ELSE LET c == Find(text, "]", a + 1)
                 inner == Strip(SubSeq(text, a + 1, IF c # 0 THEN c - 1 ELSE Len(text)))
             IN  IF inner = <<>> THEN List(<<>>) ELSE List(<<Num(1)>>)

\* lines 111-124 for a response text; generate_content or response.text may
\* raise, and every exception is caught and gives None
ParseResume(text, api_error) ==
    IF api_error THEN PyNone ELSE JsonRepairLoads(Clean(text))

(***************************************************************************)
(* re.search patterns of the two experience functions.                     *)
(***************************************************************************)
\* re.search(r"\((.*?)\)", entry): the leftmost "(" that a ")" follows on the
\* same line, and the text up to the first such ")".  <<FALSE, "">> is no match.
RECURSIVE ParenSearch(_, _)
ParenSearch(s, i) ==
    LET o == Find(s, "(", i)
        c == IF o = 0 THEN 0 ELSE Find(s, ")", o + 1)
    IN  IF o = 0 \/ c = 0 THEN <<FALSE, <<>>>>
        ELSE IF Contains(SubSeq(s, o + 1, c - 1), NL) THEN ParenSearch(s, o + 1)
        ELSE <<TRUE, SubSeq(s, o + 1, c - 1)>>

TitleMarker == <<"T", "i", "t", "l", "e", ":", " ">>
DurationMarker == <<"D", "u", "r", "a", "t", "i", "o", "n", ":", " ">>

\* The greatest k in lo..hi at which s holds pat; 0 when there is none.
LastAt(s, pat, lo, hi) ==
    LET ks == {k \in lo..hi : StartsAt(s, pat, k)}
    IN  IF ks = {} THEN 0 ELSE CHOOSE k \in ks : \A m \in ks : m <= k

\* re.search(r"Title: (.*?)\n.*Duration: (.*?)\n", entry), "." matching no
\* line break: <<matched, title, duration>>.
RECURSIVE TitleSearch(_, _)
TitleSearch(s, i) ==
    IF i > Len(s) THEN <<FALSE, <<>>, <<>>>>
    ELSE IF ~StartsAt(s, TitleMarker, i) THEN TitleSearch(s, i + 1)
    ELSE LET a == i + Len(TitleMarker)
             n1 == Find(s, NL, a)
             n2 == IF n1 = 0 THEN 0 ELSE Find(s, NL, n1 + 1)
             k == IF n2 = 0 THEN 0
                  ELSE LastAt(s, DurationMarker, n1 + 1, n2 - Len(DurationMarker))
         IN  IF k = 0 THEN TitleSearch(s, i + 1)
             ELSE <<TRUE, SubSeq(s, a, n1 - 1),
                    SubSeq(s, k + Len(DurationMarker), n2 - 1)>>

(***************************************************************************)
(* format_experience.                                                      *)
(***************************************************************************)
NA == Str(<<"N", "/", "A">>)

\* One pass of the loop body: the item appended for one entry.  An entry
\* that is neither a dict nor a str makes re.search raise TypeError.
FormatRaises(entry) == entry.t \notin {"dict", "str"}

\* the matched groups appended without strip()
FormatEntry_nostrip(entry) ==
    IF entry.t = "dict"
    THEN PyStr(Get(entry, "title", NA)) \o <<" ", "(">>
             \o PyStr(Get(entry, "duration", NA)) \o <<")">>
    ELSE LET m == TitleSearch(entry.v, 1)
         IN  IF m[1] THEN m[2] \o <<" ", "(">> \o m[3] \o <<")">>
             ELSE entry.v

FormatEntry(entry) ==
    IF entry.t = "dict"
    THEN PyStr(Get(entry, "title", NA)) \o <<" ", "(">>
             \o PyStr(Get(entry, "duration", NA)) \o <<")">>
    ELSE LET m == TitleSearch(entry.v, 1)
         IN  IF m[1] THEN Strip(m[2]) \o <<" ", "(">> \o Strip(m[3]) \o <<")">>
             ELSE entry.v

CommaSpace == <<",", " ">>

(***************************************************************************)
(* dateutil.parser.parse(text, fuzzy=True) and datetime.now().             *)
(* A date is a day number, day 0 being 2019-01-01.  A month/year text      *)
(* names no day: the parser takes the day of the month from today.         *)
(***************************************************************************)
D2020 == <<"0", "1", "/", "2", "0", "2", "0">>
D2021 == <<"0", "1", "/", "2", "0", "2", "1">>
PresentWord == <<"p", "r", "e", "s", "e", "n", "t">>

\* the first day of the month a month/year word names
FirstOfMonth(w) == IF w = D2020 THEN 365 ELSE 731

\* the words of a text that are dates
DateWords(s) ==
    LET ws == Split(s, Space) IN SelectSeq(ws, LAMBDA w : w \in {D2020, D2021})

\* parse(s, fuzzy=True) skips the words it does not know.  It returns a date
\* when one word of the text is a date, and raises ParserError when none is
\* (nothing to parse) or several are (more than three year/month/day values).
Parses(s) == Len(DateWords(s)) = 1

ParseDate(s, today) == FirstOfMonth(DateWords(s)[1]) + (today.dom - 1)

(***************************************************************************)
(* calculate_experience.                                                   *)
(***************************************************************************)
\* lines 42-47: the duration text of an entry (the caller passes dicts and
\* strs only: format_experience, called first, raises on any other entry)
EntryDuration(entry) ==
    IF entry.t = "dict" THEN Get(entry, "duration", Str(<<>>))
    ELSE LET m == ParenSearch(entry.v, 1)
         IN  IF m[1] THEN Str(m[2]) ELSE Str(<<>>)

\* line 50
HasSeparator(d) == Contains(d, Hyphen) \/ Contains(d, EnDash)

\* the separator that occurs first
Separator_first(d) ==
    LET h == Find(d, Hyphen, 1)
        e == Find(d, EnDash, 1)
    IN  IF h # 0 /\ (e = 0 \/ h < e) THEN Hyphen ELSE EnDash

\* line 52
Separator(d) == IF Contains(d, Hyphen) THEN Hyphen ELSE EnDash

\* line 53, right-hand side: map(str.strip, duration.split(separator))
SplitParts(d) ==
    LET ps == Split(d, Separator(d)) IN [i \in 1..Len(ps) |-> Strip(ps[i])]

\* line 60-61: (end_date - start_date).days
DeltaDays(start_date, end_date) == end_date - start_date

\* lines 49-63 for one entry: what the try block does to total_days.
\*   outcome "none":   no separator, nothing is added
\*   outcome "raised": an exception was caught, nothing is added
\*   outcome "added":  days were added
EntryStep(entry, today) ==
    LET dur == EntryDuration(entry)
        none == [outcome |-> "none", sep |-> "", parts |-> <<>>, days |-> 0]
        fail(sep, parts) ==
            [outcome |-> "raised", sep |-> sep, parts |-> parts, days |-> 0]
    IN  IF dur.t # "str" THEN fail("", <<>>)   \* '-' in None: TypeError
        ELSE IF ~HasSeparator(dur.v) THEN none
        ELSE LET sep == Separator(dur.v)
                 parts == SplitParts(dur.v)
             IN  IF Len(parts) # 2 THEN fail(sep, parts)
                 ELSE LET start_str == parts[1]
                          end_str == parts[2]
                          isPresent == Lower(end_str) = PresentWord
                      IN  IF ~isPresent /\ ~Parses(end_str) THEN fail(sep, parts)
                          ELSE IF ~Parses(start_str) THEN fail(sep, parts)
                          ELSE [outcome |-> "added", sep |-> sep, parts |-> parts,
                                days |-> DeltaDays(
                                    ParseDate(start_str, today),
                                    IF isPresent THEN today.ord
                                    ELSE ParseDate(end_str, today))]

\* round(total_days / 365.25, 2), in hundredths of a year
RoundYears(days) ==
    IF days >= 0 THEN (days * 800 + 1461) \div 2922
    ELSE -((-days * 800 + 1461) \div 2922)


\* for entry in x: the items a Python value yields (a str yields its
\* characters); None and numbers are not iterable
Iterable(x) == x.t \in {"list", "str"}

Items(x) == IF x.t = "str" THEN Chars(x.v) ELSE x.v

\* format_experience raises: TypeError from the for statement or re.search
FormatExperienceRaises(x) ==
    ~Iterable(x) \/ \E i \in 1..Len(Items(x)) : FormatRaises(Items(x)[i])

\* the list "formatted" at line 82
FormattedList(x) == [i \in 1..Len(Items(x)) |-> FormatEntry(Items(x)[i])]

\* format_experience's return value
format_experience(x) == Join(FormattedList(x), CommaSpace)

\* calculate_experience raises: the for statement and the re.search of line
\* 46 are outside the try block
CalculateExperienceRaises(x) ==
    ~Iterable(x) \/ \E i \in 1..Len(Items(x)) : Items(x)[i].t \notin {"dict", "str"}

\* calculate_experience: the per-entry steps, total_days, the return value
CalcTrace(x, today) == [i \in 1..Len(Items(x)) |-> EntryStep(Items(x)[i], today)]

\* a loop that stops at the first caught exception (break for continue)
RECURSIVE SumDays_break(_)
SumDays_break(tr) ==
    IF tr = <<>> \/ Head(tr).outcome = "raised" THEN 0
    ELSE Head(tr).days + SumDays_break(Tail(tr))

RECURSIVE SumDays(_)
SumDays(tr) == IF tr = <<>> THEN 0 ELSE Head(tr).days + SumDays(Tail(tr))

calculate_experience(x, today) == RoundYears(SumDays(CalcTrace(x, today)))

(***************************************************************************)
(* The texts and entries the experience functions are applied to.          *)
(***************************************************************************)
Dev == <<"D", "e", "v">>
DurForward == <<"0", "1", "/", "2", "0", "2", "0", " ", Hyphen, " ", "0", "1", "/", "2", "0", "2", "1">>
DurReversed == <<"0", "1", "/", "2", "0", "2", "1", " ", Hyphen, " ", "0", "1", "/", "2", "0", "2", "0">>
DurPresent == <<"0", "1", "/", "2", "0", "2", "0", " ", EnDash, " ", "P", "r", "e", "s", "e", "n", "t">>
DurNoDate == <<"n", "o", "t", " ", "a", " ", "d", "a", "t", "e">>
DurIso == <<"2", "0", "2", "0", Hyphen, "0", "1", " ", Hyphen, " ", "2", "0", "2", "1", Hyphen, "0", "1">>
DurBoth == <<"s", "i", "n", "c", "e", " ", EnDash, " ", "0", "1", "/", "2", "0", "2", "0", " ", Hyphen, " ", "0", "1", "/", "2", "0", "2", "1">>
DurBothHyphenFirst == <<"0", "1", "/", "2", "0", "2", "0", " ", Hyphen, " ", "0", "1", "/", "2", "0", "2", "1", " ", EnDash, " ", "x">>
DurJunk == <<"x", " ", Hyphen, " ", "y">>
FreeTextBlock == <<"T", "i", "t", "l", "e", ":", " ", "D", "e", "v", NL, "D", "u", "r", "a", "t", "i", "o", "n", ":", " ", "0", "1", "/", "2", "0", "2", "0", " ", Hyphen, " ", "0", "1", "/", "2", "0", "2", "1", NL>>
FreeTextPadded == <<"T", "i", "t", "l", "e", ":", " ", " ", "D", "e", "v", " ", NL, "r", "o", "l", "e", " ", "D", "u", "r", "a", "t", "i", "o", "n", ":", " ", "x", " ", "D", "u", "r", "a", "t", "i", "o", "n", ":", " ", "0", "1", "/", "2", "0", "2", "0", " ", Hyphen, " ", "0", "1", "/", "2", "0", "2", "1", " ", NL>>
PreFormatted == <<"D", "e", "v", " ", "(", "0", "1", "/", "2", "0", "2", "0", " ", Hyphen, " ", "0", "1", "/", "2", "0", "2", "1", ")">>

Durations ==
    {DurForward, DurReversed, DurPresent, DurNoDate, DurIso, DurBoth,
     DurBothHyphenFirst, DurJunk, <<>>}

Structured(title, duration) == Dict([title |-> Str(title), duration |-> Str(duration)])

Entries ==
    {Structured(Dev, d) : d \in Durations}
        \cup {Dict([title |-> Str(Dev)]), Dict([duration |-> Str(DurForward)]),
              Dict([title |-> Str(Dev), duration |-> PyNone]),
              Str(FreeTextBlock), Str(FreeTextPadded), Str(PreFormatted), Str(Dev),
              Num(42), PyNone}

RECURSIVE SeqsUpTo(_, _)
SeqsUpTo(S, n) ==
    IF n = 0 THEN {<<>>}
    ELSE LET shorter == SeqsUpTo(S, n - 1)
         IN  shorter \cup {Append(q, e) : q \in {r \in shorter : Len(r) = n - 1}, e \in S}

ExperienceValues ==
    {List(q) : q \in SeqsUpTo(Entries, MaxEntries)} \cup {PyNone, Str(PreFormatted)}

\* 2023-01-01, 2023-01-15 and 2023-02-01
Nows == {[ord |-> 1461, dom |-> 1], [ord |-> 1475, dom |-> 15], [ord |-> 1492, dom |-> 1]}

(***************************************************************************)
(* SpecExp: main's lines 182-183 for one experience value.                 *)
(***************************************************************************)
InitExp ==
    /\ exp_entries \in ExperienceValues
    /\ now \in Nows
    /\ pc = "start"
    /\ formatted = <<>>
    /\ experience = <<>>
    /\ trace = <<>>
    /\ total_days = 0
    /\ years = 0
    /\ SanIdle
    /\ PipeIdle
    /\ MainIdle

\* line 182: format_experience(exp_entries)
FormatExperience ==
    /\ pc = "start"
    /\ IF FormatExperienceRaises(exp_entries)
       THEN /\ pc' = "format_raised"
            /\ UNCHANGED <<formatted, experience>>
       ELSE /\ pc' = "formatted"
            /\ formatted' = FormattedList(exp_entries)
            /\ experience' = format_experience(exp_entries)
    /\ UNCHANGED <<exp_entries, now, trace, total_days, years>>
    /\ UNCHANGED <<sanVars, pipeVars, mainVars>>

\* line 183: calculate_experience(exp_entries)
CalculateExperience ==
    /\ pc = "formatted"
    /\ IF CalculateExperienceRaises(exp_entries)
       THEN /\ pc' = "calculate_raised"
            /\ UNCHANGED <<trace, total_days, years>>
       ELSE /\ pc' = "done"
            /\ trace' = CalcTrace(exp_entries, now)
            /\ total_days' = SumDays(CalcTrace(exp_entries, now))
            /\ years' = calculate_experience(exp_entries, now)
    /\ UNCHANGED <<exp_entries, now, formatted, experience>>
    /\ UNCHANGED <<sanVars, pipeVars, mainVars>>

NextExp == FormatExperience \/ CalculateExperience

SpecExp == InitExp /\ [][NextExp]_vars


(***************************************************************************)
(* Claims about format_experience and calculate_experience (SpecExp).      *)
(***************************************************************************)
IsEntryList == exp_entries.t = "list"
EntryAt(i) == Items(exp_entries)[i]
EntryIndices == 1..Len(Items(exp_entries))
DurationText(i) == EntryDuration(EntryAt(i))

\* C3: calculate_experience returns a non-negative number of years, also for
\* entries whose end date is earlier than their start date.
C3_YearsNonNegative == pc = "done" => years >= 0

\* An entry whose duration text cannot be split (no separator, or more than
\* two parts) or holds a part that is no date, or whose duration is no text.
MalformedDurations == {DurIso, DurJunk, DurNoDate, <<>>}
IsMalformed(e) ==
    \/ EntryDuration(e).t # "str"
    \/ EntryDuration(e).v \in MalformedDurations
WithoutMalformed(x) == List(SelectSeq(x.v, LAMBDA e : ~IsMalformed(e)))

FieldOrNA(e, key) == IF key \in DOMAIN e.v THEN PyStr(e.v[key]) ELSE <<"N", "/", "A">>
ExpectedItem(e) ==
    IF e.t = "dict"
    THEN FieldOrNA(e, "title") \o <<" ", "(">> \o FieldOrNA(e, "duration") \o <<")">>
    ELSE IF e.v \in {FreeTextBlock, FreeTextPadded} THEN PreFormatted
    ELSE e.v

\* C6: format_experience returns one item per entry, in the original order,
\* joined by ", ": "<title> (<duration>)" for a Structured entry, "N/A" for
\* an absent field, the trimmed title and duration of a FreeText entry that
\* matches the pattern, and a FreeText entry that does not match unchanged.
C6_OneItemPerEntryInOrder ==
    (pc \in {"formatted", "done"} /\ IsEntryList) =>
        /\ Len(formatted) = Len(exp_entries.v)
        /\ \A i \in EntryIndices : formatted[i] = ExpectedItem(EntryAt(i))
        /\ experience = Join(formatted, <<",", " ">>)

C6_Witness ==
    /\ pc = "formatted" /\ IsEntryList /\ Len(exp_entries.v) = 2
    /\ EntryAt(1) = Str(FreeTextPadded)
    /\ EntryAt(2) = Dict([title |-> Str(Dev)])
    /\ experience = PreFormatted \o <<",", " ">> \o Dev \o <<" ", "(", "N", "/", "A", ")">>

\* The separator that occurs first in a text, and the text cut at it.
IsSep(c) == c \in {Hyphen, EnDash}
FirstSepIndex(d) == CHOOSE k \in 1..Len(d) : IsSep(d[k]) /\ \A m \in 1..(k - 1) : ~IsSep(d[m])
CutAt(d, k) == <<Strip(SubSeq(d, 1, k - 1)), Strip(SubSeq(d, k + 1, Len(d)))>>
Occurrences(d, c) == Cardinality({k \in 1..Len(d) : d[k] = c})
HasSepText(i) == DurationText(i).t = "str" /\ \E k \in 1..Len(DurationText(i).v) : IsSep(DurationText(i).v[k])

\* C9 as stated: the separator that occurs first is the split point, and the
\* text is split at it into exactly two trimmed parts, also with both
\* separators or several occurrences.
C9_FirstSeparatorSplitsInTwo ==
    pc = "done" =>
        \A i \in EntryIndices :
            HasSepText(i) =>
                LET d == DurationText(i).v
                    k == FirstSepIndex(d)
                IN  /\ trace[i].sep = d[k]
                    /\ trace[i].parts = CutAt(d, k)

\* C9 amended: "-" is the separator whenever the text holds one, whichever
\* comes first, and the en-dash otherwise; a text that holds the chosen
\* separator once is split at it into two trimmed parts; a text that holds it
\* more than once is split at every occurrence, and the entry is skipped.
C9_HyphenFirstSplitsAtEvery ==
    pc = "done" =>
        \A i \in EntryIndices :
            HasSepText(i) =>
                LET d == DurationText(i).v
                    sep == IF \E k \in 1..Len(d) : d[k] = Hyphen THEN Hyphen ELSE EnDash
                    k1 == CHOOSE k \in 1..Len(d) : d[k] = sep /\ \A m \in 1..(k - 1) : d[m] # sep
                IN  /\ trace[i].sep = sep
                    /\ Occurrences(d, sep) = 1 => trace[i].parts = CutAt(d, k1)
                    /\ Occurrences(d, sep) > 1 =>
                          /\ Len(trace[i].parts) = Occurrences(d, sep) + 1
                          /\ trace[i].outcome = "raised"
                          /\ trace[i].days = 0

C9_Witness ==
    /\ pc = "done" /\ IsEntryList /\ Len(exp_entries.v) = 2
    /\ EntryAt(1) = Structured(Dev, DurBoth)
    /\ trace[1].sep = Hyphen /\ trace[1].outcome = "added"
    /\ EntryAt(2) = Structured(Dev, DurIso)
    /\ Len(trace[2].parts) = 4 /\ trace[2].outcome = "raised"


(***************************************************************************)
(* SpecSan: parse_resume_with_gemini for one response, and for the payload *)
(* of that response alone.                                                 *)
(***************************************************************************)
ObjectPayload == <<"{", "\"", "a", "\"", ":", " ", "1", "}">>
NestedPayload == <<"{", "\"", "a", "\"", ":", " ", "{", "\"", "b", "\"", ":", " ", "1", "}", "}">>
EmptyObject == <<"{", "}">>
ArrayPayload == <<"[", "1", "]">>
Payloads == {ObjectPayload, NestedPayload, EmptyObject, ArrayPayload, <<>>}

ProsePrefix == <<"H", "e", "r", "e", ":", NL>>
BracePrefix == <<"S", "e", "t", " ", "{", "x", "}", ":", NL>>
Prefixes == {<<>>, ProsePrefix, BracePrefix}

ProseSuffix == <<NL, "D", "o", "n", "e", ".">>
BraceSuffix == <<NL, "{", "e", "n", "d", "}">>
Suffixes == {<<>>, ProseSuffix, BraceSuffix}

Fences == {<<>>, FenceJson, Fence}

\* the text of a response: prefix, opening fence, payload, closing fence, suffix
RawOutput(r) ==
    r.prefix
        \o (IF r.fence = <<>> THEN <<>> ELSE r.fence \o <<NL>>)
        \o r.payload
        \o (IF r.fence = <<>> THEN <<>> ELSE <<NL>> \o Fence)
        \o r.suffix

Responses ==
    [prefix : Prefixes, fence : Fences, payload : Payloads, suffix : Suffixes,
     api_error : BOOLEAN]

InitSan ==
    /\ response \in Responses
    /\ san_done = {}
    /\ cleaned_output = <<>>
    /\ parsed = PyNone
    /\ bare_cleaned = <<>>
    /\ bare_parsed = PyNone
    /\ ExpIdle
    /\ PipeIdle
    /\ MainIdle

\* parse_resume_with_gemini, from line 114 on, for the response
SanitizeResponse ==
    /\ "response" \notin san_done
    /\ san_done' = san_done \cup {"response"}
    /\ cleaned_output' = IF response.api_error THEN <<>> ELSE Clean(RawOutput(response))
    /\ parsed' = ParseResume(RawOutput(response), response.api_error)
    /\ UNCHANGED <<response, bare_cleaned, bare_parsed>>
    /\ UNCHANGED <<expVars, pipeVars, mainVars>>

\* the same for the payload alone
SanitizePayload ==
    /\ "payload" \notin san_done
    /\ san_done' = san_done \cup {"payload"}
    /\ bare_cleaned' = IF response.api_error THEN <<>> ELSE Clean(response.payload)
    /\ bare_parsed' = ParseResume(response.payload, response.api_error)
    /\ UNCHANGED <<response, cleaned_output, parsed>>
    /\ UNCHANGED <<expVars, pipeVars, mainVars>>

NextSan == SanitizeResponse \/ SanitizePayload

SpecSan == InitSan /\ [][NextSan]_vars

(***************************************************************************)
(* Claims about the sanitizer (SpecSan).                                   *)
(***************************************************************************)
\* the failure signal, as main tests it at line 174: None or any falsy value
IsFailureSignal(x) == ~Truthy(x)

HasBrace(s) == \E k \in 1..Len(s) : s[k] \in {"{", "}"}

\* C2: the sanitizer returns a structured candidate object or the failure
\* signal, and the failure signal for every text with no brace-delimited
\* content.
C2_ObjectOrFailureSignal ==
    "response" \in san_done =>
        /\ parsed.t = "dict" \/ IsFailureSignal(parsed)
        /\ ~HasBrace(RawOutput(response)) => IsFailureSignal(parsed)

\* C8 as stated: for every payload and every prefix, suffix and fence around
\* it, cleaning the response gives the cleaned text, and the object, of the
\* payload alone.
C8_WrappedEqualsBare ==
    (san_done = {"response", "payload"} /\ ~response.api_error /\ response.payload # <<>>) =>
        /\ cleaned_output = bare_cleaned
        /\ parsed = bare_parsed

\* C8 amended: the same for a payload that begins with "{" and ends with "}",
\* a prefix that holds no "{" and a suffix that holds no "}".
BraceDelimited(s) == s # <<>> /\ s[1] = "{" /\ s[Len(s)] = "}"
C8_WrappedEqualsBareForObjects ==
    ( /\ san_done = {"response", "payload"}
      /\ ~response.api_error
      /\ BraceDelimited(response.payload)
      /\ ~Contains(response.prefix, "{")
      /\ ~Contains(response.suffix, "}") ) =>
        /\ cleaned_output = bare_cleaned
        /\ cleaned_output = response.payload
        /\ parsed = bare_parsed
        /\ parsed.t = "dict"

C8_Witness ==
    /\ san_done = {"response", "payload"}
    /\ ~response.api_error
    /\ response.payload = NestedPayload
    /\ response.prefix = ProsePrefix
    /\ response.suffix = ProseSuffix
    /\ response.fence = FenceJson
    /\ cleaned_output = NestedPayload
    /\ Truthy(parsed)


(***************************************************************************)
(* main, lines 179-185: the steps that follow the sanitizer, on the dict   *)
(* data, which they change in place.                                       *)
(***************************************************************************)
\* ", ".join(x) raises TypeError: x is not iterable or holds a non-str
JoinRaises(x) == ~Iterable(x) \/ \E i \in 1..Len(Items(x)) : Items(x)[i].t # "str"

JoinSkills(x) == Join([i \in 1..Len(Items(x)) |-> Items(x)[i].v], CommaSpace)

\* [raised |-> an exception left the steps, data |-> the dict as they left it]
PostSanitize(data, today, filename) ==
    IF data.t # "dict" THEN [raised |-> TRUE, data |-> data]   \* data.get: AttributeError
    ELSE LET exp == Get(data, "experience", List(<<>>))
         IN  IF FormatExperienceRaises(exp) THEN [raised |-> TRUE, data |-> data]
             ELSE LET d1 == Put(data, "experience", Str(format_experience(exp)))
                  IN  IF CalculateExperienceRaises(exp) THEN [raised |-> TRUE, data |-> d1]
                      ELSE LET d2 == Put(d1, "experience_in_years",
                                         Float(calculate_experience(exp, today)))
                               skills == Get(d2, "skills", List(<<>>))
                           IN  IF JoinRaises(skills) THEN [raised |-> TRUE, data |-> d2]
                               ELSE [raised |-> FALSE,
                                     data |-> Put(Put(d2, "skills", Str(JoinSkills(skills))),
                                                  "filename", Str(filename))]

(***************************************************************************)
(* The records a sanitizer call can return.                                *)
(***************************************************************************)
Python == <<"P", "y", "t", "h", "o", "n">>
Sql == <<"S", "Q", "L">>
Ann == <<"A", "n", "n">>
Mail == <<"a", "@", "x", ".", "i", "o">>
Phone == <<"5", "5", "5">>

FullRecord ==
    Dict([name |-> Str(Ann), email |-> Str(Mail), phone |-> Str(Phone),
          skills |-> List(<<Str(Python), Str(Sql)>>),
          experience |-> List(<<Structured(Dev, DurForward)>>)])

\* an ongoing job
PresentRecord ==
    Dict([name |-> Str(Ann), email |-> Str(Mail), phone |-> Str(Phone),
          skills |-> List(<<Str(Python)>>),
          experience |-> List(<<Structured(Dev, DurPresent)>>)])

\* no name, email or phone in the object
NamelessRecord ==
    Dict([skills |-> List(<<Str(Sql)>>),
          experience |-> List(<<Structured(Dev, DurNoDate)>>)])

\* a number among the skills
NumberSkillRecord ==
    Dict([name |-> Str(Ann), email |-> Str(Mail), phone |-> Str(Phone),
          skills |-> List(<<Str(Python), Num(42)>>),
          experience |-> List(<<Structured(Dev, DurForward)>>)])

\* "experience": null
NullExperienceRecord ==
    Dict([name |-> Str(Ann), email |-> Str(Mail), phone |-> Str(Phone),
          skills |-> List(<<>>), experience |-> PyNone])

\* only a name
NameOnlyRecord == Dict([name |-> Str(Ann)])

SanitizedRecords ==
    {FullRecord, PresentRecord, NamelessRecord, NumberSkillRecord,
     NullExperienceRecord, NameOnlyRecord}

\* a full record with the experience list of one entry
WithEntry(e) == Put(FullRecord, "experience", List(<<e>>))

PipeRecords == SanitizedRecords \cup {WithEntry(e) : e \in Entries}

FileA == <<"a", ".", "p", "d", "f">>
FileB == <<"b", ".", "d", "o", "c", "x">>
FileC == <<"c", ".", "p", "d", "f">>

(***************************************************************************)
(* SpecPipe: lines 179-185 run on a sanitized record, and run once more on *)
(* the same sanitized record, at the time of each run.                     *)
(***************************************************************************)
InitPipe ==
    /\ clock \in Nows
    /\ sanitized \in PipeRecords
    /\ runs = 0
    /\ first_record = PyNone
    /\ second_record = PyNone
    /\ ExpIdle
    /\ SanIdle
    /\ MainIdle

\* time passes between two runs
ClockAdvances ==
    /\ runs < 2
    /\ \E later \in Nows : later.ord > clock.ord /\ clock' = later
    /\ UNCHANGED <<sanitized, runs, first_record, second_record>>
    /\ UNCHANGED <<expVars, sanVars, mainVars>>

\* the steps run; an exception is caught at line 190 and no record is kept
RunSteps ==
    /\ runs < 2
    /\ runs' = runs + 1
    /\ LET r == PostSanitize(sanitized, clock, FileA)
           out == IF r.raised THEN PyNone ELSE r.data
       IN  IF runs = 0
           THEN first_record' = out /\ UNCHANGED second_record
           ELSE second_record' = out /\ UNCHANGED first_record
    /\ UNCHANGED <<clock, sanitized>>
    /\ UNCHANGED <<expVars, sanVars, mainVars>>

NextPipe == ClockAdvances \/ RunSteps

SpecPipe == InitPipe /\ [][NextPipe]_vars

\* C7: running the steps that follow the sanitizer twice on the same
\* sanitized record gives the same experience string, the same
\* experience_in_years and the same skills.
C7_SecondRunEqualsFirst ==
    (runs = 2 /\ first_record.t = "dict") =>
        /\ second_record.t = "dict"
        /\ second_record.v["experience"] = first_record.v["experience"]
        /\ second_record.v["experience_in_years"] = first_record.v["experience_in_years"]
        /\ second_record.v["skills"] = first_record.v["skills"]


(***************************************************************************)
(* main: one run of the script, and reset_session.                         *)
(***************************************************************************)
FileNames == {FileA, FileB, FileC}

\* what st.file_uploader can return: distinct files, at most MaxFiles of them
FileLists ==
    {q \in SeqsUpTo(FileNames, MaxFiles) : \A i, j \in 1..Len(q) : i # j => q[i] # q[j]}

\* What extract_text_from_file and parse_resume_with_gemini return for one
\* file in one run: text is "none" (an exception was caught, line 34),
\* "empty" (no text in the file) or "text"; data is the sanitizer's value.
Outcome(text, data) == [text |-> text, data |-> data]

Outcomes ==
    {Outcome("none", PyNone), Outcome("empty", PyNone)}
        \cup {Outcome("text", d) :
                d \in {PyNone, List(<<Num(1)>>), FullRecord, NamelessRecord,
                       NullExperienceRecord}}

\* lines 166-192 for one file.  ok: the file was appended and counted as a
\* success; extracted: text was truthy; sanitized: data was a non-empty dict.
ProcessFile(file, o, today) ==
    IF o.text # "text" THEN [ok |-> FALSE, extracted |-> FALSE, sanitized |-> FALSE, data |-> PyNone]
    ELSE IF ~Truthy(o.data)
    THEN [ok |-> FALSE, extracted |-> TRUE, sanitized |-> FALSE, data |-> PyNone]
    ELSE LET r == PostSanitize(o.data, today, file)
         IN  [ok |-> ~r.raised, extracted |-> TRUE, sanitized |-> o.data.t = "dict",
              data |-> IF r.raised THEN PyNone ELSE r.data]

\* ProcessFile, tabulated
Processed == [f \in FileNames, o \in Outcomes, n \in Nows |-> ProcessFile(f, o, n)]

\* line 196
column_order ==
    <<"name", "email", "phone", "experience_in_years", "experience", "skills", "filename">>

\* pd.DataFrame(all_data)[column_order] raises KeyError: a column that no
\* record has is not a column of the frame
MissingColumn(records) ==
    \E c \in 1..Len(column_order) :
        \A i \in 1..Len(records) : column_order[c] \notin DOMAIN records[i].v

\* lines 206-211: a row per record, Sno from 1, Date, and the ordered
\* columns, NaN where a record lacks one
DataFrame(records, today) ==
    [i \in 1..Len(records) |->
        [Sno |-> i, Date |-> today.ord,
         cols |-> [c \in 1..Len(column_order) |->
                     IF column_order[c] \in DOMAIN records[i].v
                     THEN records[i].v[column_order[c]] ELSE NaN]]]

\* lines 213-218: what the run shows after the loop, for the records kept
Summary(log, records, today) ==
    [log |-> log,
     all_data |-> records,
     success_count |-> Len(records),
     fail_count |-> Len(log) - Len(records),
     run_end |-> IF records = <<>> THEN "error"
                 ELSE IF MissingColumn(records) THEN "aborted" ELSE "success",
     table |-> IF records = <<>> \/ MissingColumn(records) THEN PyNone
               ELSE [t |-> "frame", v |-> DataFrame(records, today)]]

\* lines 187-188: the records appended to all_data, in file order
Appended(log) ==
    LET good == SelectSeq(log, LAMBDA r : r.ok)
    IN  [i \in 1..Len(good) |-> good[i].data]

\* lines 161-218: the loop over the stored files and the summary
ParseRun(files, outs, today) ==
    LET log == [i \in 1..Len(files) |-> Processed[files[i], outs[i], today]]
    IN  Summary(log, Appended(log), today)

\* st.session_state[key] = value
SetKey(ss, key, value) == [k \in DOMAIN ss \cup {key} |-> IF k = key THEN value ELSE ss[k]]

\* lines 139-151: the keys main sets when they are missing, and the
\* uploader's key
InitKeys(ss, W) ==
    LET s1 == IF "uploaded_files" \in DOMAIN ss THEN ss ELSE SetKey(ss, "uploaded_files", <<>>)
        s2 == IF "parsed_data" \in DOMAIN s1 THEN s1 ELSE SetKey(s1, "parsed_data", PyNone)
    IN  SetKey(s2, "file_uploader", W)

\* the stored results kept when the file list changes
UpdateSession_keep(ss, W) ==
    IF W # ss["uploaded_files"] THEN SetKey(ss, "uploaded_files", W) ELSE ss

\* lines 154-156
UpdateSession(ss, W) ==
    IF W # ss["uploaded_files"]
    THEN SetKey(SetKey(ss, "uploaded_files", W), "parsed_data", PyNone)
    ELSE ss

\* line 159
ParseCondition(ss) == ss["uploaded_files"] # <<>> /\ ss["parsed_data"] = PyNone

\* lines 126-131
reset_session(ss) ==
    [k \in DOMAIN ss \ {"uploaded_files", "parsed_data", "file_uploader"} |-> ss[k]]

InitMain ==
    /\ session_state = <<>>
    /\ parse_offered = FALSE
    /\ reset_offered = FALSE
    /\ reset_pending = FALSE
    /\ changed = FALSE
    /\ run_end = "none"
    /\ files_seen = <<>>
    /\ file_log = <<>>
    /\ all_data = <<>>
    /\ success_count = 0
    /\ fail_count = 0
    /\ parsed_from = <<>>
    /\ ExpIdle
    /\ SanIdle
    /\ PipeIdle

\* the state a run leaves when the Parse button was not pressed in it
NoParse(ss) ==
    /\ session_state' = ss
    /\ run_end' = "none"
    /\ files_seen' = <<>>
    /\ file_log' = <<>>
    /\ all_data' = <<>>
    /\ success_count' = 0
    /\ fail_count' = 0
    /\ reset_offered' = (ss["parsed_data"] # PyNone)
    /\ UNCHANGED parsed_from

\* A run of the script in which no button is pressed: the first run, a run
\* after the uploader changed, the run that follows reset_session.
Rerun(W) ==
    /\ LET s1 == InitKeys(session_state, W)
           s2 == UpdateSession(s1, W)
       IN  /\ changed' = (W # s1["uploaded_files"])
           /\ parse_offered' = ParseCondition(s2)
           /\ NoParse(s2)
    /\ reset_pending' = FALSE
    /\ UNCHANGED <<expVars, sanVars, pipeVars>>

\* what the uploader holds in the browser: the value of its last run
WidgetValue ==
    IF "file_uploader" \in DOMAIN session_state THEN session_state["file_uploader"] ELSE <<>>

\* lines 194-218 and the end of the run: parsed_data is stored at line 213,
\* which a run that ends at line 206 or in the else of line 217 never reaches
EndOfRun(s2, files, r) ==
    /\ session_state' = IF r.run_end = "success" THEN SetKey(s2, "parsed_data", r.table) ELSE s2
    /\ run_end' = r.run_end
    /\ files_seen' = files
    /\ file_log' = r.log
    /\ all_data' = r.all_data
    /\ success_count' = r.success_count
    /\ fail_count' = r.fail_count
    /\ parsed_from' = IF r.run_end = "success" THEN files ELSE parsed_from
    /\ reset_offered' = (r.run_end = "success" \/ s2["parsed_data"] # PyNone)

\* the script from line 159 on, with the session state s2 of line 156
FromParseCondition(s2, outs) ==
    /\ parse_offered' = ParseCondition(s2)
    /\ IF ~ParseCondition(s2) THEN NoParse(s2)
       ELSE EndOfRun(s2, s2["uploaded_files"], ParseRun(s2["uploaded_files"], outs, clock))

\* A run of the script that the Parse button started: the uploader holds
\* what it held when the button was rendered.
ParseClick(outs) ==
    /\ parse_offered /\ ~reset_pending
    /\ changed' = (WidgetValue # InitKeys(session_state, WidgetValue)["uploaded_files"])
    /\ FromParseCondition(UpdateSession(InitKeys(session_state, WidgetValue), WidgetValue), outs)
    /\ reset_pending' = FALSE
    /\ UNCHANGED <<expVars, sanVars, pipeVars>>

\* The Reset button is pressed: its on_click callback runs before the script.
ResetClick ==
    /\ reset_offered /\ ~reset_pending
    /\ session_state' = reset_session(session_state)
    /\ reset_pending' = TRUE
    /\ UNCHANGED <<parse_offered, reset_offered, changed, run_end, files_seen, file_log,
                   all_data, success_count, fail_count, parsed_from>>
    /\ UNCHANGED <<expVars, sanVars, pipeVars>>

UploadOrReload == \E W \in FileLists : Rerun(W)

PressParse == \E outs \in [1..Len(WidgetValue) -> Outcomes] : ParseClick(outs)

Next == UploadOrReload \/ PressParse \/ ResetClick

Spec == InitMain /\ [][Next]_vars

(***************************************************************************)
(* Claims about Spec.                                                      *)
(***************************************************************************)
\* st.session_state.get(key): None when the key is absent
Stored(key) == IF key \in DOMAIN session_state THEN session_state[key] ELSE PyNone

\* the rows of the stored result table
TableRows == IF Stored("parsed_data") = PyNone THEN 0 ELSE Len(Stored("parsed_data").v)

\* the state is the end of a run in which Parse was pressed
AfterParseRun == run_end # "none" /\ ~reset_pending

\* C1: a parse run never aborts: it visits every file, counts each file
\* once (success_count + fail_count is the number of files, the result table
\* has success_count rows) and reaches the summary with no exception
\* leaving the run.
C1_RunNeverAborts ==
    AfterParseRun =>
        /\ run_end # "aborted"
        /\ Len(file_log) = Len(files_seen)
        /\ success_count + fail_count = Len(files_seen)
        /\ TableRows = success_count

\* C5: a file whose text extraction and sanitization both succeed is
\* appended to the results and counted as a success, whatever its record
\* holds.
C5_OnlyExtractionOrSanitizeFails ==
    AfterParseRun =>
        \A i \in 1..Len(file_log) :
            (file_log[i].extracted /\ file_log[i].sanitized) => file_log[i].ok

\* C10: at the end of every run and after every Reset callback:
\* stored parsed_data that is not None was computed from the stored
\* uploaded_files; a run whose uploader list differed from the stored list
\* leaves parsed_data None; Parse was offered only with a non-empty stored
\* list and parsed_data None at line 159 (so parsed_data is None at the end
\* of the run unless that run parsed with success); a parse run with zero
\* successes leaves parsed_data None; after Reset none of uploaded_files,
\* parsed_data, file_uploader is stored and the session state is the
\* initial one.
C10_SessionState ==
    /\ Stored("parsed_data") # PyNone => parsed_from = Stored("uploaded_files")
    /\ (changed /\ ~reset_pending) => Stored("parsed_data") = PyNone
    /\ (parse_offered /\ ~reset_pending) =>
           /\ Stored("uploaded_files") # <<>>
           /\ Stored("parsed_data") = PyNone \/ run_end = "success"
    /\ (AfterParseRun /\ success_count = 0) => Stored("parsed_data") = PyNone
    /\ reset_pending =>
           /\ DOMAIN session_state \cap {"uploaded_files", "parsed_data", "file_uploader"} = {}
           /\ session_state = <<>>

\* Reset was pressed on the table of a run that parsed two files, one with
\* success and one failed
C10_Witness ==
    /\ reset_pending
    /\ run_end = "success"
    /\ Len(parsed_from) = 2
    /\ success_count = 1 /\ fail_count = 1

=============================================================================
